---- MODULE Spec2Model ----
(***************************************************************************)
(* A model of the Publisher of @pulsar-js/producer (src/index.js, current  *)
(* variant, lines 1-485): the authentication slot and its setters, the     *)
(* argument vector built by #command, and the life of one publish/test     *)
(* call: the records handled by #process and the close handler.            *)
(***************************************************************************)
EXTENDS Integers, Sequences, FiniteSets, TLC

(***************************************************************************)
(* Bounds of the model.                                                    *)
(***************************************************************************)
\* records delivered to the data handler in one call
MaxRecords == 2
\* largest numeric exit code the subprocess ends with
MaxExitCode == 2
\* how many calls are made with the caller's one options object
MaxCalls == 2

(***************************************************************************)
(* JavaScript values.  Every value is a record with a type tag t and the   *)
(* text v that string coercion (a template literal, + with a string)       *)
(* gives; objects also carry their own properties, in insertion order.     *)
(***************************************************************************)
Undefined == [t |-> "undefined", v |-> "undefined"]

Null == [t |-> "null", v |-> "null"]

Str(s) == [t |-> "string", v |-> s]

Bool(b) == [t |-> "boolean", v |-> IF b THEN "true" ELSE "false"]

Num(n) == [t |-> "number", v |-> ToString(n)]

Obj(entries) == [t |-> "object", v |-> "[object Object]", entries |-> entries]

RECURSIVE JoinText(_)
\* Array.prototype.toString: the items' texts, comma-separated
JoinText(items) ==
  IF Len(items) = 0 THEN ""
  ELSE IF Len(items) = 1 THEN Head(items).v
  ELSE Head(items).v \o "," \o JoinText(Tail(items))

Arr(items) == [t |-> "array", v |-> JoinText(items), items |-> items]

\* x ?? y
Nullish(x) == x.t \in {"undefined", "null"}

\* if (x), !x, x && ..., x || ...
Truthy(x) ==
  /\ ~Nullish(x)
  /\ ~(x.t = "string" /\ x.v = "")
  /\ ~(x.t = "boolean" /\ x.v = "false")
  /\ ~(x.t = "number" /\ x.v = "0")

\* `${x}`
Text(x) == x.v

\* o.k
Get(o, k) ==
  IF o.t = "object" /\ \E i \in 1..Len(o.entries) : o.entries[i].k = k
    THEN o.entries[CHOOSE i \in 1..Len(o.entries) : o.entries[i].k = k].v
    ELSE Undefined

Has(o, k) == o.t = "object" /\ \E i \in 1..Len(o.entries) : o.entries[i].k = k

\* delete o.k
Delete(o, k) == Obj(SelectSeq(o.entries, LAMBDA e : e.k # k))

\* o.k = x : an existing key keeps its place, a new key goes last
Set(o, k, x) ==
  IF Has(o, k)
    THEN Obj([i \in 1..Len(o.entries) |->
               IF o.entries[i].k = k THEN [v |-> x, k |-> k] ELSE o.entries[i]])
    ELSE Obj(Append(o.entries, [v |-> x, k |-> k]))

Keys(o) == {o.entries[i].k : i \in 1..Len(o.entries)}

(***************************************************************************)
(* JSON.stringify.                                                         *)
(***************************************************************************)
RECURSIVE JSONEscape(_)
\* the text of a string inside JSON: quotes and backslashes escaped
JSONEscape(s) ==
  IF Len(s) = 0 THEN s
  ELSE (IF SubSeq(s, 1, 1) \in {"\"", "\\"} THEN "\\" \o SubSeq(s, 1, 1) ELSE SubSeq(s, 1, 1))
         \o JSONEscape(SubSeq(s, 2, Len(s)))

RECURSIVE JSONStringify(_)
RECURSIVE JSONMembers(_)
RECURSIVE JSONItems(_)
\* the members of an object, comma-separated
JSONMembers(entries) ==
  IF Len(entries) = 0 THEN ""
  ELSE "\"" \o JSONEscape(Head(entries).k) \o "\":" \o JSONStringify(Head(entries).v)
         \o (IF Len(entries) > 1 THEN "," \o JSONMembers(Tail(entries)) ELSE "")

\* the items of an array, comma-separated
JSONItems(items) ==
  IF Len(items) = 0 THEN ""
  ELSE JSONStringify(Head(items))
         \o (IF Len(items) > 1 THEN "," \o JSONItems(Tail(items)) ELSE "")

\* JSON.stringify(x)
JSONStringify(x) ==
  CASE x.t = "string" -> "\"" \o JSONEscape(x.v) \o "\""
    [] x.t = "object" -> "{" \o JSONMembers(x.entries) \o "}"
    [] x.t = "array" -> "[" \o JSONItems(x.items) \o "]"
    [] OTHER -> x.v

(***************************************************************************)
(* String functions of the language that the code calls.                   *)
(***************************************************************************)
IsSpace(c) == c \in {" ", "\t", "\n", "\r"}

RECURSIVE TrimStart(_)
TrimStart(s) ==
  IF Len(s) > 0 /\ IsSpace(SubSeq(s, 1, 1)) THEN TrimStart(SubSeq(s, 2, Len(s))) ELSE s

RECURSIVE TrimEnd(_)
TrimEnd(s) ==
  IF Len(s) > 0 /\ IsSpace(SubSeq(s, Len(s), Len(s)))
    THEN TrimEnd(SubSeq(s, 1, Len(s) - 1))
    ELSE s

\* String.prototype.trim
Trim(s) == TrimEnd(TrimStart(s))

\* String.prototype.startsWith
StartsWith(s, p) == Len(s) >= Len(p) /\ SubSeq(s, 1, Len(p)) = p

Upper == "ABCDEFGHIJKLMNOPQRSTUVWXYZ"

Lower == "abcdefghijklmnopqrstuvwxyz"

LowerChar(c) ==
  IF \E i \in 1..Len(Upper) : SubSeq(Upper, i, i) = c
    THEN LET i == CHOOSE j \in 1..Len(Upper) : SubSeq(Upper, j, j) = c
         IN  SubSeq(Lower, i, i)
    ELSE c

RECURSIVE ToLowerCase(_)
\* String.prototype.toLowerCase
ToLowerCase(s) ==
  IF Len(s) = 0 THEN s
  ELSE LowerChar(SubSeq(s, 1, 1)) \o ToLowerCase(SubSeq(s, 2, Len(s)))

RECURSIVE EscapeQuotes(_)
\* s.replace(/\"/g, '\\"')
EscapeQuotes(s) ==
  IF Len(s) = 0 THEN s
  ELSE (IF SubSeq(s, 1, 1) = "\"" THEN "\\\"" ELSE SubSeq(s, 1, 1))
         \o EscapeQuotes(SubSeq(s, 2, Len(s)))

\* mutant of Unshift: the tokens are pushed to the end of the vector
Push(command, tokens) == command \o tokens

\* command.unshift(a, b, ...)
Unshift(command, tokens) == tokens \o command

(***************************************************************************)
(* The state.                                                              *)
(***************************************************************************)
VARIABLES
  timeout,         \* Publisher.#timeout
  name,            \* Publisher.#name
  properties,      \* Publisher.#properties
  authentication,  \* Publisher.#authentication
  thrown,          \* message of the exception the last setter call threw, "" if none
  lastSetter,      \* history: the last writer of #authentication and what it was given
  phase,           \* "idle", "running" (child spawned), "closed", "failed" (no child)
  test,            \* options.test ?? false of the call, as handed to #process
  bus,             \* the bus argument of the call
  command,         \* the argument vector the child was spawned with
  commandFrom,     \* history: lastSetter when the vector was built, and the call's arguments
  messageId,       \* let messageId of publish (PendingResult)
  outcome,         \* the promise publish returned
  killed,          \* child.kill() was called
  exitCode,        \* the code the close event carried
  handled,         \* history: the records the data handler was called with
  events,          \* what bus.emit was called with, in order
  crashed,         \* an exception left a data handler and ended the host process
  loading,         \* the top-level code of the module: how far it is, whether the
                   \* executable is at BIN_PATH, the error loading failed with
  opts,            \* an options object the caller keeps and passes to call after call
  made             \* history: the calls made with that object, and their vectors

vars == <<timeout, name, properties, authentication, thrown, lastSetter, phase, test, bus,
          command, commandFrom, messageId, outcome, killed, exitCode, handled, events,
          crashed, loading, opts, made>>

\* what no setter writes, and no call that is given an options object of its own
publisherVars == <<timeout, name, properties, loading, opts, made>>

callVars == <<phase, test, bus, command, commandFrom, messageId, outcome, killed, exitCode,
              handled, events, crashed>>

ConnectionString == "pulsar://broker:6650/persistent/ns/topic"

(***************************************************************************)
(* Publisher.#command: the argument vector.                                *)
(***************************************************************************)
Quoted(x) == "\"" \o Text(x) \o "\""

RECURSIVE Chars(_)
\* the values a for...of over a string yields
Chars(s) == IF Len(s) = 0 THEN <<>> ELSE <<Str(SubSeq(s, 1, 1))>> \o Chars(SubSeq(s, 2, Len(s)))

\* for (const x of value)
Iterable(value) == value.t \in {"array", "string"}

ItemsOf(value) == IF value.t = "array" THEN value.items ELSE Chars(value.v)

\* Object.entries(value)
EntriesOf(value) ==
  CASE value.t = "object" -> value.entries
    [] value.t = "array" -> [i \in 1..Len(value.items) |-> [v |-> value.items[i], k |-> ToString(i - 1)]]
    [] value.t = "string" -> [i \in 1..Len(value.v) |-> [v |-> Str(SubSeq(value.v, i, i)), k |-> ToString(i - 1)]]
    [] OTHER -> <<>>

RECURSIVE UnshiftEach(_, _, _)
\* for (const cluster of value) command.unshift(flag, `"${cluster}"`)
UnshiftEach(cmd, flag, items) ==
  IF Len(items) = 0 THEN cmd
  ELSE UnshiftEach(Unshift(cmd, <<flag, Quoted(Head(items))>>), flag, Tail(items))

RECURSIVE UnshiftPairs(_, _, _)
\* for (const [k, v] of Object.entries(value)) command.unshift(flag, `${k}="${v}"`)
UnshiftPairs(cmd, flag, entries) ==
  IF Len(entries) = 0 THEN cmd
  ELSE UnshiftPairs(Unshift(cmd, <<flag, Head(entries).k \o "=" \o Quoted(Head(entries).v)>>),
                    flag, Tail(entries))

\* mutant of MessageFlag: the key is compared as it is written
MessageFlagCaseSensitive(cmd, key, value) ==
  CASE key = "key" -> Unshift(cmd, <<"--key", Quoted(value)>>)
    [] key = "orderingkey" -> Unshift(cmd, <<"--ordering-key", Quoted(value)>>)
    [] key = "eventtime" -> Unshift(cmd, <<"--event-time", Quoted(value)>>)
    [] key = "replicationclusters" -> UnshiftEach(cmd, "--replication-cluster", ItemsOf(value))
    [] key = "disablereplication" -> Unshift(cmd, <<"--disable-replication">>)
    [] key = "sequenceid" -> Unshift(cmd, <<"--sequence-id", Quoted(value)>>)
    [] key = "deliverafter" -> Unshift(cmd, <<"--deliver-after", Quoted(value)>>)
    [] key = "deliverat" -> Unshift(cmd, <<"--deliver-at", Quoted(value)>>)
    [] key = "properties" -> UnshiftPairs(cmd, "--property", EntriesOf(value))
    [] key = "producer-properties" -> UnshiftPairs(cmd, "--producer-property", EntriesOf(value))
    [] OTHER -> cmd

\* one turn of the loop over Object.entries(options): the switch on the key
MessageFlag(cmd, key, value) ==
  LET k == ToLowerCase(Trim(key)) IN
  CASE k = "key" -> Unshift(cmd, <<"--key", Quoted(value)>>)
    [] k = "orderingkey" -> Unshift(cmd, <<"--ordering-key", Quoted(value)>>)
    [] k = "eventtime" -> Unshift(cmd, <<"--event-time", Quoted(value)>>)
    [] k = "replicationclusters" -> UnshiftEach(cmd, "--replication-cluster", ItemsOf(value))
    [] k = "disablereplication" -> Unshift(cmd, <<"--disable-replication">>)
    [] k = "sequenceid" -> Unshift(cmd, <<"--sequence-id", Quoted(value)>>)
    [] k = "deliverafter" -> Unshift(cmd, <<"--deliver-after", Quoted(value)>>)
    [] k = "deliverat" -> Unshift(cmd, <<"--deliver-at", Quoted(value)>>)
    [] k = "properties" -> UnshiftPairs(cmd, "--property", EntriesOf(value))
    [] k = "producer-properties" -> UnshiftPairs(cmd, "--producer-property", EntriesOf(value))
    [] OTHER -> cmd

\* the turn throws: a value that cannot be iterated, or Object.entries of undefined/null
MessageFlagThrows(key, value) ==
  LET k == ToLowerCase(Trim(key)) IN
    \/ k = "replicationclusters" /\ ~Iterable(value)
    \/ k \in {"properties", "producer-properties"} /\ Nullish(value)

RECURSIVE MessageFlags(_, _)
\* for (const [key, value] of Object.entries(options)) switch ...
MessageFlags(cmd, entries) ==
  IF Len(entries) = 0 THEN cmd
  ELSE MessageFlags(MessageFlag(cmd, Head(entries).k, Head(entries).v), Tail(entries))

RECURSIVE ProducerProperties(_, _)
\* for (const [key, value] of Object.entries(this.#properties))
ProducerProperties(cmd, entries) ==
  IF Len(entries) = 0 THEN cmd
  ELSE ProducerProperties(
         Unshift(cmd, <<"--producer-property", Head(entries).k \o "=" \o Text(Head(entries).v)>>),
         Tail(entries))

\* mutant of ProducerFlags: --timeout carries the default, not the configured value
ProducerFlagsDefaultTimeout(cmd) ==
  Unshift(Unshift(ProducerProperties(cmd, EntriesOf(properties)),
                  <<"--timeout", "30">>),
          <<"--name", Quoted(name)>>)

\* the producer flags of this Publisher
ProducerFlags(cmd) ==
  Unshift(Unshift(ProducerProperties(cmd, EntriesOf(properties)),
                  <<"--timeout", Text(timeout)>>),
          <<"--name", Quoted(name)>>)

\* this.#authentication.field && command.unshift(flag, `${this.#authentication.field}`)
FlagIf(cmd, auth, field, flag) ==
  IF Truthy(Get(auth, field)) THEN Unshift(cmd, <<flag, Text(Get(auth, field))>>) ELSE cmd

\* the switch on this.#authentication.type
AuthFlags(cmd, auth) ==
  IF ~Truthy(auth) THEN cmd
  ELSE LET type == Get(auth, "type") IN
    CASE type = Str("oidc") ->
           FlagIf(IF Truthy(Get(auth, "allowUnverified"))
                    THEN Unshift(cmd, <<"--allow-unverified">>) ELSE cmd,
                  auth, "token", "--jwt")
      [] type = Str("mtls") ->
           FlagIf(FlagIf(FlagIf(cmd, auth, "certPath", "--mtls-cert"),
                         auth, "keyPath", "--mtls-key"),
                  auth, "caCert", "--mtls-ca-cert")
      [] type = Str("oauth2") ->
           FlagIf(FlagIf(FlagIf(FlagIf(cmd, auth, "issuer", "--oauth2-issuer"),
                                auth, "privateKey", "--oauth2-private-key"),
                         auth, "audience", "--oauth2-audience"),
                  auth, "clientID", "--oauth2-client-id")
      [] type = Str("basic") ->
           FlagIf(FlagIf(cmd, auth, "username", "--username"), auth, "password", "--password")
      [] type = Str("athenz") ->
           FlagIf(FlagIf(FlagIf(FlagIf(FlagIf(FlagIf(FlagIf(FlagIf(cmd,
             auth, "url", "--athenz"),
             auth, "domain", "--athenz-domain"),
             auth, "tenant", "--athenz-tenant"),
             auth, "service", "--athenz-service"),
             auth, "privateKey", "--athenz-private-key"),
             auth, "keyId", "--athenz-key-id"),
             auth, "caCert", "--athenz-ca-cert"),
             auth, "proxy", "--athenz-proxy")
      [] OTHER -> cmd

\* options.authentication ?? options.auth ?? this.#authentication
EffectiveAuth(options) ==
  IF ~Nullish(Get(options, "authentication")) THEN Get(options, "authentication")
  ELSE IF ~Nullish(Get(options, "auth")) THEN Get(options, "auth")
  ELSE authentication

\* #command throws: message.replace on a value that is no string, or a loop turn
CommandThrows(message, options) ==
  /\ ~Truthy(Get(options, "test"))
  /\ \/ message.t # "string"
     \/ \E i \in 1..Len(options.entries) :
          MessageFlagThrows(options.entries[i].k, options.entries[i].v)

\* mutant of Command: --test is put in front before the authentication flags are
CommandTestInner(message, options) ==
  LET base == <<ConnectionString>>
      body == IF ~Truthy(Get(options, "test"))
                THEN ProducerFlags(MessageFlags(Append(base, EscapeQuotes(message.v)),
                                                options.entries))
                ELSE Unshift(base, <<"--test">>)
  IN  AuthFlags(body, EffectiveAuth(options))

\* mutant of Command: the authentication flags are put in front first, then the
\* producer flags, then the message flags
CommandAuthInnermost(message, options) ==
  LET base == <<ConnectionString>>
      auth == AuthFlags(IF ~Truthy(Get(options, "test"))
                          THEN Append(base, EscapeQuotes(message.v)) ELSE base,
                        EffectiveAuth(options))
      body == IF ~Truthy(Get(options, "test"))
                THEN MessageFlags(ProducerFlags(auth), options.entries)
                ELSE auth
  IN  IF Truthy(Get(options, "test")) THEN Unshift(body, <<"--test">>) ELSE body

\* the vector #command returns
Command(message, options) ==
  LET base == <<ConnectionString>>
      body == IF ~Truthy(Get(options, "test"))
                THEN ProducerFlags(MessageFlags(Append(base, EscapeQuotes(message.v)),
                                                options.entries))
                ELSE base
      auth == AuthFlags(body, EffectiveAuth(options))
  IN  IF Truthy(Get(options, "test")) THEN Unshift(auth, <<"--test">>) ELSE auth

\* the vector #command of a given Publisher returns: its fields are those of the
\* record, its slot is publisher.authentication
CommandOf(publisher, message, options) ==
  LET base == <<ConnectionString>>
      auth == IF ~Nullish(Get(options, "authentication")) THEN Get(options, "authentication")
              ELSE IF ~Nullish(Get(options, "auth")) THEN Get(options, "auth")
              ELSE publisher.authentication
      body == IF ~Truthy(Get(options, "test"))
                THEN Unshift(Unshift(ProducerProperties(
                                       MessageFlags(Append(base, EscapeQuotes(message.v)),
                                                    options.entries),
                                       EntriesOf(publisher.properties)),
                                     <<"--timeout", Text(publisher.timeout)>>),
                             <<"--name", Quoted(publisher.name)>>)
                ELSE base
      flagged == AuthFlags(body, auth)
  IN  IF Truthy(Get(options, "test")) THEN Unshift(flagged, <<"--test">>) ELSE flagged

(***************************************************************************)
(* Inputs.                                                                 *)
(***************************************************************************)
Field(k, x) == [v |-> x, k |-> k]

\* the options the Publisher is constructed with
PublisherOptions ==
  { Obj(<<>>),
    Obj(<<Field("timeout", Num(5)), Field("name", Str("orders")),
          Field("properties", Obj(<<Field("region", Str("eu"))>>))>>) }

\* files readFileSync finds, and what they hold
Files == {"./admin.jwt"}

FileContents(path) == [t |-> "buffer", v |-> "eyJmaWxl"]

JWTTokens ==
  { Undefined, Str(""), Str("   "), Str("eyJhbGciOi"), Str("./admin.jwt"), Str("./missing.jwt") }

MTLSInputs ==
  { <<Str("client.pem"), Str("client.key"), Str("ca.pem")>>,
    <<Str("client.pem"), Str("client.key"), Undefined>> }

OAuth2Inputs ==
  { Obj(<<Field("issuer", Str("https://issuer")), Field("privateKey", Str("oauth.key")),
          Field("audience", Str("aud")), Field("clientId", Str("client-1"))>>),
    Obj(<<Field("issuer", Str("https://issuer")), Field("privateKey", Str("oauth.key"))>>) }

BasicInputs == { <<Str("alice"), Str("secret")>>, <<Str("alice"), Undefined>> }

AthenzInputs ==
  { Obj(<<Field("domain", Str("dom")), Field("tenant", Str("ten")),
          Field("service", Str("svc")), Field("privateKey", Str("athenz.key")),
          Field("url", Str("https://zts")), Field("proxy", Str("https://proxy")),
          Field("keyId", Str("k0")), Field("caCert", Str("athenz-ca.pem"))>>),
    Obj(<<Field("domain", Str("dom")), Field("tenant", Str("ten")),
          Field("service", Str("svc")), Field("privateKey", Str("athenz.key")),
          Field("url", Str("https://zts"))>>) }

\* the payloads publish is called with
Messages == { Str("hello"), Str("say \"hi\""), Obj(<<Field("a", Num(1))>>), Num(42) }

\* the options objects publish and test are called with
CallOptions ==
  { Obj(<<>>),
    Obj(<<Field("key", Str("k1")), Field("replicationClusters", Arr(<<Str("a"), Str("b")>>))>>),
    Obj(<<Field("authentication",
                Obj(<<Field("type", Str("basic")), Field("username", Str("bob")),
                      Field("password", Str("hunter2"))>>))>>),
    Obj(<<Field("auth", Obj(<<Field("type", Str("oidc")), Field("token", Str("eyJvdmVy"))>>))>>) }

\* options objects that spell the message-metadata keys in several ways, one with every key
MetadataOptions ==
  { Obj(<<Field("key", Str("k1")), Field("replicationClusters", Arr(<<Str("a"), Str("b")>>))>>),
    Obj(<<Field("KEY", Str("k1")), Field("ReplicationClusters", Arr(<<Str("a"), Str("b")>>)),
          Field("colour", Str("red"))>>),
    Obj(<<Field("orderingKey", Str("ok")), Field("eventTime", Num(1700)),
          Field("disableReplication", Bool(TRUE)), Field("sequenceId", Num(7)),
          Field("deliverAfter", Num(500)), Field("deliverAt", Num(1800)),
          Field("properties", Obj(<<Field("a", Str("1"))>>)),
          Field("producer-properties", Obj(<<Field("b", Str("2"))>>))>>),
    Obj(<<Field("ORDERINGKEY", Str("ok")), Field("EventTime", Num(1700)),
          Field("disablereplication", Bool(TRUE)), Field("SEQUENCEID", Num(7)),
          Field(" deliverAfter ", Num(500)), Field("DeliverAT", Num(1800)),
          Field("retries", Num(3)),
          Field("Properties", Obj(<<Field("a", Str("1"))>>)),
          Field("Producer-Properties", Obj(<<Field("b", Str("2"))>>))>>) }

NoBus == [present |-> FALSE, listeners |-> {}]

\* the bus argument: none, or an EventEmitter and the events it has listeners for
Buses == { NoBus, [present |-> TRUE, listeners |-> {"end"}],
           [present |-> TRUE, listeners |-> {"end", "error"}] }

Time == Str("2025-04-05T12:34:56.789Z")

Rec(msg, extra) == Obj(<<Field("msg", Str(msg)), Field("time", Time), Field("level", Str("INFO"))>> \o extra)

\* the records the subprocess writes, one per chunk
Records ==
  { Rec("done", <<Field("message_id", Str("abc-123"))>>),
    Rec("done", <<>>),
    Rec("test", <<Field("success", Bool(TRUE))>>),
    Rec("test", <<Field("success", Bool(FALSE))>>),
    Rec("x", <<Field("error", Str("boom"))>>),
    Rec("x", <<Field("error", Str(""))>>),
    Rec("connecting", <<Field("url", Str("pulsar://broker:6650"))>>) }

\* the codes a close event carries: a number, or null when a signal ended the child
ExitCodes == {Num(n) : n \in 0..MaxExitCode} \cup {Null}

(***************************************************************************)
(* Construction.                                                           *)
(***************************************************************************)
Pending == [value |-> Undefined, state |-> "pending"]

\* new Error(text)
Err(text) == [t |-> "error", v |-> "Error: " \o text, message |-> text]

\* x || y
OrElse(x, y) == IF Truthy(x) THEN x ELSE y

BIN_PATH == "bin/pulsar-publish"

\* the module has been loaded: the executable was found, or downloaded
Loaded == [state |-> "loaded", binary |-> TRUE, error |-> ""]

\* new Publisher(connection_string, options), in a module that has been loaded
Init ==
  /\ loading = Loaded
  /\ \E options \in PublisherOptions :
       /\ timeout = OrElse(Get(options, "timeout"), Num(30))
       /\ name = OrElse(Get(options, "name"), Str("manual-producer"))
       /\ properties = OrElse(Get(options, "properties"), Obj(<<>>))
  /\ authentication = Obj(<<Field("type", Null)>>)
  /\ thrown = ""
  /\ lastSetter = [by |-> "constructor", given |-> Obj(<<>>)]
  /\ phase = "idle"
  /\ test = FALSE
  /\ bus = NoBus
  /\ command = <<>>
  /\ commandFrom = [options |-> Obj(<<>>),
                    message |-> Undefined,
                    by |-> "constructor",
                    given |-> Obj(<<>>)]
  /\ messageId = Undefined
  /\ outcome = Pending
  /\ killed = FALSE
  /\ exitCode = Undefined
  /\ handled = <<>>
  /\ events = <<>>
  /\ crashed = FALSE
  /\ opts = Obj(<<>>)
  /\ made = <<>>

(***************************************************************************)
(* Loading the module: the check for the executable at the top level.      *)
(***************************************************************************)
\* import of the module begins; the executable is at BIN_PATH or it is not
InitLoad ==
  /\ loading \in {[state |-> "loading", binary |-> b, error |-> ""] : b \in BOOLEAN}
  /\ \E options \in PublisherOptions :
       /\ timeout = OrElse(Get(options, "timeout"), Num(30))
       /\ name = OrElse(Get(options, "name"), Str("manual-producer"))
       /\ properties = OrElse(Get(options, "properties"), Obj(<<>>))
  /\ authentication = Obj(<<Field("type", Null)>>)
  /\ thrown = ""
  /\ lastSetter = [by |-> "constructor", given |-> Obj(<<>>)]
  /\ phase = "idle"
  /\ test = FALSE
  /\ bus = NoBus
  /\ command = <<>>
  /\ commandFrom = [options |-> Obj(<<>>),
                    message |-> Undefined,
                    by |-> "constructor",
                    given |-> Obj(<<>>)]
  /\ messageId = Undefined
  /\ outcome = Pending
  /\ killed = FALSE
  /\ exitCode = Undefined
  /\ handled = <<>>
  /\ events = <<>>
  /\ crashed = FALSE
  /\ opts = Obj(<<>>)
  /\ made = <<>>

\* what run() of ./scripts/binary.js does: it rejects (here with the message ETIMEDOUT),
\* or it resolves, having put the executable at BIN_PATH or not
Downloads == {"rejects", "resolves without the executable", "resolves with the executable"}

NotInstalled == "the module is not installed correctly (binary not found at " \o BIN_PATH \o ")"

DownloadFailed ==
  "the module is not installed correctly(binary not found at " \o BIN_PATH
    \o ") - failed to auto-download binary during module import: " \o "ETIMEDOUT"

\* mutant of LoadModule: loading ends without the check for the executable
LoadModuleUnchecked(download) ==
  /\ loading.state = "loading"
  /\ loading' = [loading EXCEPT !.state = "loaded"]
  /\ UNCHANGED <<timeout, name, properties, authentication, thrown, lastSetter, callVars,
                 opts, made>>

\* if (!(await exists(BIN_PATH))) { download; if (!(await exists(BIN_PATH))) throw }
LoadModule(download) ==
  /\ loading.state = "loading"
  /\ loading' =
       IF loading.binary THEN [loading EXCEPT !.state = "loaded"]
       ELSE CASE download = "rejects" ->
                   [loading EXCEPT !.state = "failed", !.error = DownloadFailed]
              [] download = "resolves without the executable" ->
                   [loading EXCEPT !.state = "failed", !.error = NotInstalled]
              [] OTHER -> Loaded
  /\ UNCHANGED <<timeout, name, properties, authentication, thrown, lastSetter, callVars,
                 opts, made>>

(***************************************************************************)
(* The authentication setters.                                             *)
(***************************************************************************)
InvalidJWT == "a valid JWT token must be provided"

NoSuchFile == "ENOENT: no such file or directory"

\* mutant of JWTRejected: the token is not trimmed before its length is taken
JWTRejectedUntrimmed(token) == ~Truthy(token)

\* if (!token || token.trim().length === 0) throw
JWTRejected(token) == ~Truthy(token) \/ Len(Trim(token.v)) = 0

\* if (!token.startsWith('eyJ')) token = readFileSync(resolve(__dirname, token))
JWTNeedsFile(token) == ~StartsWith(token.v, "eyJ")

JWTMaterial(token) == IF JWTNeedsFile(token) THEN FileContents(token.v) ELSE token

\* the object setJWT stores
JWTSlot(token, allowUnverified) ==
  Obj(<<Field("type", Str("oidc")), Field("token", JWTMaterial(token)),
        Field("allowUnverified", allowUnverified)>>)

\* the object setmTLS stores
MTLSSlot(certPath, keyPath, caCert) ==
  Obj(<<Field("certPath", certPath), Field("keyPath", keyPath), Field("caCert", caCert)>>)

\* the object setOauth2 stores
OAuth2Slot(config) ==
  Obj(<<Field("type", Str("oauth2")), Field("issuer", Get(config, "issuer")),
        Field("privateKey", Get(config, "privateKey")),
        Field("audience", Get(config, "audience")),
        Field("clientId", Get(config, "clientId"))>>)

\* the object setBasicAuth stores
BasicSlot(username, password) ==
  Obj(<<Field("type", Str("basic")), Field("username", username),
        Field("password", password)>>)

RECURSIVE Patched(_, _)
\* the slot with the given fields written over it, field by field
Patched(slot, entries) ==
  IF Len(entries) = 0 THEN slot
  ELSE Patched(Set(slot, Head(entries).k, Head(entries).v), Tail(entries))

\* mutant of AthenzSlot: the fields given are patched into the slot as it is
AthenzSlotPatched(config) ==
  Patched(authentication, <<Field("type", Str("athenz"))>> \o config.entries)

\* the object setAthenz stores
AthenzSlot(config) ==
  Obj(<<Field("type", Str("athenz")), Field("domain", Get(config, "domain")),
        Field("tenant", Get(config, "tenant")), Field("service", Get(config, "service")),
        Field("privateKey", Get(config, "privateKey")), Field("url", Get(config, "url")),
        Field("proxy", Get(config, "proxy")), Field("keyId", Get(config, "keyId")),
        Field("caCert", Get(config, "caCert"))>>)

\* a setter returned: the slot holds what it stored
Stored(by, given, slot) ==
  /\ authentication' = slot
  /\ thrown' = ""
  /\ lastSetter' = [by |-> by, given |-> given]

\* a setter threw before it wrote the slot
Threw(message) ==
  /\ thrown' = message
  /\ UNCHANGED <<authentication, lastSetter>>

setJWT(token, allowUnverified) ==
  /\ ~crashed
  /\ IF JWTRejected(token) THEN Threw(InvalidJWT)
     ELSE IF JWTNeedsFile(token) /\ token.v \notin Files THEN Threw(NoSuchFile)
     ELSE Stored("setJWT",
                 Obj(<<Field("token", token), Field("allowUnverified", allowUnverified)>>),
                 JWTSlot(token, allowUnverified))
  /\ UNCHANGED <<publisherVars, callVars>>

setmTLS(certPath, keyPath, caCert) ==
  /\ ~crashed
  /\ Stored("setmTLS",
            Obj(<<Field("certPath", certPath), Field("keyPath", keyPath),
                  Field("caCert", caCert)>>),
            MTLSSlot(certPath, keyPath, caCert))
  /\ UNCHANGED <<publisherVars, callVars>>

setOauth2(config) ==
  /\ ~crashed
  /\ Stored("setOauth2", config, OAuth2Slot(config))
  /\ UNCHANGED <<publisherVars, callVars>>

setBasicAuth(username, password) ==
  /\ ~crashed
  /\ Stored("setBasicAuth",
            Obj(<<Field("username", username), Field("password", password)>>),
            BasicSlot(username, password))
  /\ UNCHANGED <<publisherVars, callVars>>

setAthenz(config) ==
  /\ ~crashed
  /\ Stored("setAthenz", config, AthenzSlot(config))
  /\ UNCHANGED <<publisherVars, callVars>>

(***************************************************************************)
(* Publisher.publish and Publisher.test: the call, up to the spawn.        *)
(***************************************************************************)
\* mutant of Resolve: done(value) replaces a settlement that is already there
ResolveOverwrites(promise, value) == [value |-> value, state |-> "resolved"]

\* done(value) and reject(error) of the promise: the first settlement stands
Resolve(promise, value) ==
  IF promise.state = "pending" THEN [value |-> value, state |-> "resolved"] ELSE promise

Reject(promise, error) ==
  IF promise.state = "pending" THEN [value |-> error, state |-> "rejected"] ELSE promise

NotAFunction == "message.replace is not a function"

NotIterable == "value is not iterable"

\* the exception #command ends with
CommandError(message, options) ==
  IF message.t # "string" THEN Err(NotAFunction) ELSE Err(NotIterable)

\* options.test ?? false
TestFlag(options) ==
  IF Nullish(Get(options, "test")) THEN FALSE ELSE Truthy(Get(options, "test"))

\* an authentication object given in the options of the call
Override(options) ==
  ~Nullish(Get(options, "authentication")) \/ ~Nullish(Get(options, "auth"))

\* the promise executor: #command, spawn, the listeners
Call(message, options, b) ==
  /\ ~crashed
  /\ loading.state = "loaded"
  /\ phase \in {"idle", "closed", "failed"}
  /\ test' = TestFlag(options)
  /\ bus' = b
  /\ messageId' = Undefined
  /\ killed' = FALSE
  /\ exitCode' = Undefined
  /\ handled' = <<>>
  /\ events' = <<>>
  /\ IF CommandThrows(message, options)
       THEN /\ phase' = "failed"
            /\ command' = <<>>
            /\ outcome' = Reject(Pending, CommandError(message, options))
            /\ UNCHANGED <<authentication, lastSetter>>
       ELSE /\ phase' = "running"
            /\ command' = Command(message, options)
            /\ outcome' = Pending
            /\ authentication' = EffectiveAuth(options)
            /\ lastSetter' = IF Override(options)
                               THEN [by |-> "options", given |-> EffectiveAuth(options)]
                               ELSE lastSetter
  /\ commandFrom' = [options |-> options,
                     message |-> message,
                     by |-> lastSetter'.by,
                     given |-> lastSetter'.given]
  /\ UNCHANGED <<publisherVars, thrown, crashed>>

\* publish(message, options, bus)
Publish(message, options, b) == Call(message, options, b)

\* test(options, bus): options.test = true, then publish('_', options, bus)
Test(options, b) == Call(Str("_"), Set(options, "test", Bool(TRUE)), b)

(***************************************************************************)
(* Calls that are given one options object again and again: the object the *)
(* caller holds is the object the code reads and writes.                   *)
(***************************************************************************)
\* x ?? y
Coalesce(x, y) == IF Nullish(x) THEN y ELSE x

\* the options objects a caller keeps
CallerOptions ==
  { Obj(<<>>),
    Obj(<<Field("key", Str("k1"))>>),
    Obj(<<Field("timeout", Num(30)), Field("name", Str("test-producer")),
          Field("authorization",
                Obj(<<Field("type", Str("oidc")), Field("token", Str("./admin.jwt"))>>))>>),
    Obj(<<Field("auth", Obj(<<Field("type", Str("Basic")), Field("username", Str("bob")),
                              Field("password", Str("hunter2"))>>))>>),
    Obj(<<Field("authorization", Obj(<<Field("type", Str("oidc"))>>))>>) }

\* a Publisher as constructed, and the object the caller holds
InitCaller ==
  /\ loading = Loaded
  /\ \E options \in PublisherOptions :
       /\ timeout = OrElse(Get(options, "timeout"), Num(30))
       /\ name = OrElse(Get(options, "name"), Str("manual-producer"))
       /\ properties = OrElse(Get(options, "properties"), Obj(<<>>))
  /\ authentication = Obj(<<Field("type", Null)>>)
  /\ thrown = ""
  /\ lastSetter = [by |-> "constructor", given |-> Obj(<<>>)]
  /\ phase = "idle"
  /\ test = FALSE
  /\ bus = NoBus
  /\ command = <<>>
  /\ commandFrom = [options |-> Obj(<<>>),
                    message |-> Undefined,
                    by |-> "constructor",
                    given |-> Obj(<<>>)]
  /\ messageId = Undefined
  /\ outcome = Pending
  /\ killed = FALSE
  /\ exitCode = Undefined
  /\ handled = <<>>
  /\ events = <<>>
  /\ crashed = FALSE
  /\ opts \in CallerOptions
  /\ made = <<>>

\* the call is noted with the vector it built
Made(api, message) ==
  made' = Append(made, [command |-> command',
                        test |-> test',
                        message |-> message,
                        given |-> opts,
                        api |-> api])

\* publisher.publish(message, o, b), where publisher holds the fields of the Publisher
\* before the call and who wrote its slot, and o is the caller's object as the code
\* has left it
CallWith(api, publisher, message, o, b) ==
  /\ ~crashed
  /\ loading.state = "loaded"
  /\ phase \in {"idle", "closed", "failed"}
  /\ Len(made) < MaxCalls
  /\ timeout' = publisher.timeout
  /\ name' = publisher.name
  /\ properties' = publisher.properties
  /\ thrown' = ""
  /\ opts' = o
  /\ test' = TestFlag(o)
  /\ bus' = b
  /\ messageId' = Undefined
  /\ killed' = FALSE
  /\ exitCode' = Undefined
  /\ handled' = <<>>
  /\ events' = <<>>
  /\ IF CommandThrows(message, o)
       THEN /\ phase' = "failed"
            /\ command' = <<>>
            /\ outcome' = Reject(Pending, CommandError(message, o))
            /\ authentication' = publisher.authentication
            /\ lastSetter' = publisher.from
       ELSE /\ phase' = "running"
            /\ command' = CommandOf(publisher, message, o)
            /\ outcome' = Pending
            /\ authentication' = IF ~Nullish(Get(o, "authentication"))
                                   THEN Get(o, "authentication")
                                 ELSE IF ~Nullish(Get(o, "auth")) THEN Get(o, "auth")
                                 ELSE publisher.authentication
            /\ lastSetter' = IF Override(o)
                               THEN [by |-> "options", given |-> authentication']
                               ELSE publisher.from
  /\ commandFrom' = [options |-> o,
                     message |-> message,
                     by |-> lastSetter'.by,
                     given |-> lastSetter'.given]
  /\ Made(api, message)
  /\ UNCHANGED <<crashed, loading>>

\* the Publisher the caller has constructed
This == [timeout |-> timeout, name |-> name, properties |-> properties,
         authentication |-> authentication, from |-> lastSetter]

\* publisher.publish(message, opts, bus) on the Publisher, with the caller's object
PublishWith(message, b) == CallWith("Publisher.publish", This, message, opts, b)

\* publisher.test(opts, bus) on the Publisher: opts.test = true is written into the
\* caller's object
TestWith(b) ==
  CallWith("Publisher.test", This, Str("_"), Set(opts, "test", Bool(TRUE)), b)

(***************************************************************************)
(* getPublisher and the functions the module exports.                      *)
(***************************************************************************)
NotAString == "(opts.authorization.type ?? \"\").trim is not a function"

\* the setter getPublisher calls for opts.authorization: what it throws, or the slot
\* it stores
Configured(a) ==
  LET none == [thrown |-> "", by |-> "constructor", given |-> Obj(<<>>),
               slot |-> Obj(<<Field("type", Null)>>)]
      type == Coalesce(Get(a, "type"), Str(""))
  IN  IF ~Truthy(a) THEN none
      ELSE IF type.t # "string" THEN [none EXCEPT !.thrown = NotAString]
      ELSE LET variant == ToLowerCase(Trim(type.v)) IN
        CASE variant = "oidc" ->
               LET token == Coalesce(Get(a, "token"), Str("none"))
                   allowUnverified == Coalesce(Get(a, "allowUnverified"), Bool(FALSE))
                   given == Obj(<<Field("token", token),
                                  Field("allowUnverified", allowUnverified)>>)
               IN  IF JWTRejected(token)
                     THEN [none EXCEPT !.thrown = InvalidJWT]
                   ELSE IF JWTNeedsFile(token) /\ token.v \notin Files
                     THEN [none EXCEPT !.thrown = NoSuchFile]
                   ELSE [thrown |-> "", by |-> "setJWT", given |-> given,
                         slot |-> JWTSlot(token, allowUnverified)]
          [] variant = "mtls" ->
               LET certPath == Coalesce(Get(a, "certPath"), Undefined)
                   keyPath == Coalesce(Get(a, "keyPath"), Undefined)
                   caCert == Coalesce(Get(a, "caCert"), Undefined)
               IN  [thrown |-> "", by |-> "setmTLS",
                    given |-> Obj(<<Field("certPath", certPath), Field("keyPath", keyPath),
                                    Field("caCert", caCert)>>),
                    slot |-> MTLSSlot(certPath, keyPath, caCert)]
          [] variant = "oauth2" ->
               LET config == Obj([i \in 1..4 |->
                                   LET k == <<"issuer", "privateKey", "audience", "clientId">>[i]
                                   IN  Field(k, Coalesce(Get(a, k), Undefined))])
               IN  [thrown |-> "", by |-> "setOauth2", given |-> config,
                    slot |-> OAuth2Slot(config)]
          [] variant = "basic" ->
               [thrown |-> "", by |-> "setBasicAuth",
                given |-> Obj(<<Field("username", Get(a, "username")),
                                Field("password", Get(a, "password"))>>),
                slot |-> BasicSlot(Get(a, "username"), Get(a, "password"))]
          [] variant = "athenz" ->
               LET config == Obj([i \in 1..8 |->
                                   LET k == <<"domain", "tenant", "service", "privateKey",
                                              "url", "proxy", "keyId", "caCert">>[i]
                                   IN  Field(k, Coalesce(Get(a, k), Undefined))])
               IN  [thrown |-> "", by |-> "setAthenz", given |-> config,
                    slot |-> AthenzSlot(config)]
          [] OTHER -> none

\* getPublisher(connection_string, opts).publish(message, opts, bus), or .test(opts, bus):
\* a Publisher is made from opts, opts.authorization and opts.auth are deleted, and the
\* method is called with what is left of opts
Exported(api, message, b) ==
  LET a == Coalesce(Get(opts, "authorization"), Coalesce(Get(opts, "auth"), Null))
      assigned == Set(opts, "authorization", a)
      configured == Configured(a)
      deleted == Delete(Delete(assigned, "authorization"), "auth")
      publisher ==
        [timeout |-> OrElse(Coalesce(Get(opts, "timeout"), Num(30)), Num(30)),
         name |-> OrElse(Coalesce(Get(opts, "name"), Str("manual-producer")),
                         Str("manual-producer")),
         properties |-> OrElse(OrElse(Get(opts, "properties"), Obj(<<>>)), Obj(<<>>)),
         authentication |-> configured.slot,
         from |-> [by |-> configured.by, given |-> configured.given]]
  IN  IF configured.thrown # ""
        THEN /\ ~crashed
             /\ loading.state = "loaded"
             /\ phase \in {"idle", "closed", "failed"}
             /\ Len(made) < MaxCalls
             /\ timeout' = publisher.timeout
             /\ name' = publisher.name
             /\ properties' = publisher.properties
             /\ thrown' = configured.thrown
             /\ opts' = assigned
             /\ authentication' = configured.slot
             /\ lastSetter' = publisher.from
             /\ phase' = "failed"
             /\ test' = FALSE
             /\ bus' = b
             /\ command' = <<>>
             /\ outcome' = Reject(Pending, Err(configured.thrown))
             /\ messageId' = Undefined
             /\ killed' = FALSE
             /\ exitCode' = Undefined
             /\ handled' = <<>>
             /\ events' = <<>>
             /\ commandFrom' = [options |-> assigned,
                                message |-> message,
                                by |-> configured.by,
                                given |-> configured.given]
             /\ Made(api, message)
             /\ UNCHANGED <<crashed, loading>>
        ELSE CallWith(api, publisher, message,
                      IF api = "test" THEN Set(deleted, "test", Bool(TRUE)) ELSE deleted, b)

\* export default async function publish(connection_string, message, opts, bus)
ModulePublish(message, b) == Exported("publish", message, b)

\* export async function test(connection_string, opts, bus)
ModuleTest(b) == Exported("test", Str("_"), b)

(***************************************************************************)
(* Publisher.#process: the data handler of stdout and stderr.              *)
(***************************************************************************)
\* bus.emit(name, arg) throws when name is 'error' and nobody listens for it
EmitThrows(b, eventName) == eventName = "error" /\ "error" \notin b.listeners

Emitted(eventName, arg) == [name |-> eventName, arg |-> arg]

\* new Date(x)
DateOf(x) == [t |-> "date", v |-> x.v]

\* the exception leaves the handler uncaught: the host process ends, unless the
\* host has an uncaughtException handler of its own
Uncaught == crashed' \in BOOLEAN

\* if (entry.error) { ... }
OnError(entry) ==
  /\ killed' = TRUE
  /\ IF test
       THEN /\ messageId' = Bool(FALSE)
            /\ UNCHANGED <<outcome, events, crashed>>
       ELSE LET err == Err(Text(Get(entry, "error"))) IN
            /\ UNCHANGED messageId
            /\ IF bus.present /\ EmitThrows(bus, "error")
                 THEN /\ Uncaught
                      /\ UNCHANGED <<outcome, events>>
                 ELSE /\ events' = IF bus.present
                                     THEN Append(events, Emitted("error", err))
                                     ELSE events
                      /\ outcome' = Reject(outcome, err)
                      /\ UNCHANGED crashed

\* mutant of Response: every terminal record is read as a test result
ResponseSuccessOnly(msg, entry) == Get(entry, "success")

\* the value setResponse is called with, for a record that is a terminal one
Response(msg, entry) ==
  IF msg = Str("done") THEN Get(entry, "message_id") ELSE Get(entry, "success")

Terminal(msg) == msg = Str("done") \/ msg = Str("test")

\* mutant of OnRecord: time and level are deleted before the record goes to the bus
OnRecordStripsFirst(msg, entry) ==
  LET stripped == Delete(Delete(entry, "time"), "level") IN
  /\ UNCHANGED <<killed, outcome>>
  /\ IF bus.present /\ EmitThrows(bus, msg.v)
       THEN /\ Uncaught
            /\ UNCHANGED <<messageId, events>>
       ELSE /\ events' = IF bus.present THEN Append(events, Emitted(msg.v, stripped)) ELSE events
            /\ messageId' = IF Terminal(msg) THEN Response(msg, entry) ELSE messageId
            /\ UNCHANGED crashed

\* mutant of OnRecord: a terminal record resolves the call at once
OnRecordResolves(msg, entry) ==
  LET dated == Set(entry, "time", DateOf(Get(entry, "time"))) IN
  /\ UNCHANGED killed
  /\ IF bus.present /\ EmitThrows(bus, msg.v)
       THEN /\ Uncaught
            /\ UNCHANGED <<messageId, events, outcome>>
       ELSE /\ events' = IF bus.present THEN Append(events, Emitted(msg.v, dated)) ELSE events
            /\ messageId' = IF Terminal(msg) THEN Response(msg, entry) ELSE messageId
            /\ outcome' = IF Terminal(msg) THEN Resolve(outcome, Response(msg, entry))
                                           ELSE outcome
            /\ UNCHANGED crashed

\* the rest of the handler: forward to the bus, then store a terminal record's value
OnRecord(msg, entry) ==
  LET dated == Set(entry, "time", DateOf(Get(entry, "time"))) IN
  /\ UNCHANGED <<killed, outcome>>
  /\ IF bus.present /\ EmitThrows(bus, msg.v)
       THEN /\ Uncaught
            /\ UNCHANGED <<messageId, events>>
       ELSE /\ events' = IF bus.present THEN Append(events, Emitted(msg.v, dated)) ELSE events
            /\ messageId' = IF Terminal(msg) THEN Response(msg, entry) ELSE messageId
            /\ UNCHANGED crashed

\* process(data), data holding one record
Data(record) ==
  /\ ~crashed
  /\ phase = "running"
  /\ Len(handled) < MaxRecords
  /\ handled' = Append(handled, record)
  /\ LET msg == Get(record, "msg")
         entry == Delete(record, "msg")
     IN  IF Truthy(Get(entry, "error")) THEN OnError(entry) ELSE OnRecord(msg, entry)
  /\ UNCHANGED <<publisherVars, authentication, thrown, lastSetter, phase, test, bus,
                 command, commandFrom, exitCode>>

(***************************************************************************)
(* The chunks of the two channels and JSON.parse.  The subprocess writes   *)
(* one record per line; a chunk is the text one 'data' event carries.      *)
(***************************************************************************)
\* the line of a record, without its newline
RecordText(r) == JSONStringify(r)

\* the records the chunks are cut from
ChunkRecords ==
  {r \in Records : \/ Get(r, "message_id") = Str("abc-123")
                   \/ Get(r, "error") = Str("boom")
                   \/ Has(r, "url")}

Line(r) == RecordText(r) \o "\n"

\* the first part of the line, and the rest of it
HeadOf(r) == SubSeq(Line(r), 1, 12)

RestOf(r) == SubSeq(Line(r), 13, Len(Line(r)))

\* chunks of one line, of two lines, and the two parts of a line cut in the middle
Chunks ==
  {Line(r) : r \in ChunkRecords}
    \cup {Line(r1) \o Line(r2) : r1 \in {r \in ChunkRecords : Has(r, "url")},
                                 r2 \in {r \in ChunkRecords : Has(r, "message_id")}}
    \cup {HeadOf(r) : r \in {x \in ChunkRecords : Has(x, "message_id")}}
    \cup {RestOf(r) : r \in {x \in ChunkRecords : Has(x, "message_id")}}

\* JSON.parse(text) throws a SyntaxError unless the text is one JSON value (white space
\* around it allowed): of the texts of the chunks, the line of one record
ParseThrows(data) == ~\E r \in ChunkRecords : Trim(data) = RecordText(r)

\* JSON.parse(text)
Parse(data) == CHOOSE r \in ChunkRecords : Trim(data) = RecordText(r)

\* process(data) for any chunk: JSON.parse first, then the handler as above
Process(data) ==
  IF ParseThrows(data)
    THEN /\ ~crashed
         /\ phase = "running"
         /\ Uncaught
         /\ UNCHANGED <<publisherVars, authentication, thrown, lastSetter, phase, test, bus,
                        command, commandFrom, messageId, outcome, killed, exitCode, handled,
                        events>>
    ELSE Data(Parse(data))

(***************************************************************************)
(* The close handler.                                                      *)
(***************************************************************************)
ExitMessage(code) == "pulsar-publish process exited with code " \o Text(code)

UnknownError(id) ==
  "message ID (" \o Text(id) \o ") was not returned from pulsar-publish (unknown error)"

EndEvent(id) == Emitted("end", Obj(<<Field("messageId", id)>>))

\* mutant of CloseHandler: the legacy handler, without the test-mode branch
CloseHandlerLegacy(code) ==
  IF code # Num(0)
    THEN outcome' = Reject(outcome, Err(ExitMessage(code))) /\ UNCHANGED events
  ELSE IF ~Truthy(messageId)
    THEN outcome' = Reject(outcome, Err(UnknownError(messageId))) /\ UNCHANGED events
  ELSE /\ events' = IF bus.present THEN Append(events, EndEvent(messageId)) ELSE events
       /\ outcome' = Resolve(outcome, messageId)

\* mutant of CloseHandler: the stored value is looked at before the exit code
CloseHandlerResultFirst(code) ==
  IF Truthy(messageId) \/ (test /\ ~Nullish(messageId))
    THEN /\ events' = IF bus.present /\ ~test THEN Append(events, EndEvent(messageId)) ELSE events
         /\ outcome' = Resolve(outcome, messageId)
  ELSE IF code # Num(0)
    THEN outcome' = Reject(outcome, Err(ExitMessage(code))) /\ UNCHANGED events
  ELSE outcome' = Reject(outcome, Err(UnknownError(messageId))) /\ UNCHANGED events

\* mutant of CloseHandler: the check for a missing result is left out
CloseHandlerNoResultCheck(code) ==
  IF test /\ ~Nullish(messageId)
    THEN outcome' = Resolve(outcome, messageId) /\ UNCHANGED events
  ELSE IF code # Num(0)
    THEN outcome' = Reject(outcome, Err(ExitMessage(code))) /\ UNCHANGED events
  ELSE /\ events' = IF bus.present THEN Append(events, EndEvent(messageId)) ELSE events
       /\ outcome' = Resolve(outcome, messageId)

\* mutant of CloseHandler: the check of the exit code is left out
CloseHandlerNoCodeCheck(code) ==
  IF test /\ ~Nullish(messageId)
    THEN outcome' = Resolve(outcome, messageId) /\ UNCHANGED events
  ELSE IF ~Truthy(messageId)
    THEN outcome' = Reject(outcome, Err(UnknownError(messageId))) /\ UNCHANGED events
  ELSE /\ events' = IF bus.present THEN Append(events, EndEvent(messageId)) ELSE events
       /\ outcome' = Resolve(outcome, messageId)

\* the body of child.on('close', (code) => ...)
CloseHandler(code) ==
  IF test /\ ~Nullish(messageId)
    THEN outcome' = Resolve(outcome, messageId) /\ UNCHANGED events
  ELSE IF code # Num(0)
    THEN outcome' = Reject(outcome, Err(ExitMessage(code))) /\ UNCHANGED events
  ELSE IF ~Truthy(messageId)
    THEN outcome' = Reject(outcome, Err(UnknownError(messageId))) /\ UNCHANGED events
  ELSE /\ events' = IF bus.present THEN Append(events, EndEvent(messageId)) ELSE events
       /\ outcome' = Resolve(outcome, messageId)

\* the close event of the child: both channels have ended, the code is known
Close(code) ==
  /\ ~crashed
  /\ phase = "running"
  /\ phase' = "closed"
  /\ exitCode' = code
  /\ CloseHandler(code)
  /\ UNCHANGED <<publisherVars, authentication, thrown, lastSetter, test, bus, command,
                 commandFrom, messageId, killed, handled, crashed>>

(***************************************************************************)
(* The specifications.  Next is every operation with every input; the      *)
(* argument vector and the life of the call do not read each other, so     *)
(* each is checked under a specification of its own: SpecConfig, the       *)
(* setters and the calls with every option, the child closing without a    *)
(* record; SpecOptions, the calls with every spelling of the message       *)
(* options; SpecSession, the calls without options on a Publisher as       *)
(* constructed, with every record, bus and exit code.                      *)
(***************************************************************************)
Setters ==
  \/ \E token \in JWTTokens, allowUnverified \in {Bool(FALSE), Bool(TRUE)} :
       setJWT(token, allowUnverified)
  \/ \E paths \in MTLSInputs : setmTLS(paths[1], paths[2], paths[3])
  \/ \E config \in OAuth2Inputs : setOauth2(config)
  \/ \E login \in BasicInputs : setBasicAuth(login[1], login[2])
  \/ \E config \in AthenzInputs : setAthenz(config)

Next ==
  \/ Setters
  \/ \E message \in Messages, options \in CallOptions, b \in Buses : Publish(message, options, b)
  \/ \E options \in CallOptions, b \in Buses : Test(options, b)
  \/ \E record \in Records : Data(record)
  \/ \E code \in ExitCodes : Close(code)

Spec == Init /\ [][Next]_vars

NextConfig ==
  \/ Setters
  \/ \E options \in CallOptions : Publish(Str("hello"), options, NoBus)
  \/ \E options \in CallOptions : Test(options, NoBus)
  \/ Close(Num(0))

SpecConfig == Init /\ [][NextConfig]_vars

NextOptions ==
  \/ \E login \in BasicInputs : setBasicAuth(login[1], login[2])
  \/ \E message \in {m \in Messages : m.t = "string"}, options \in MetadataOptions :
       Publish(message, options, NoBus)
  \/ \E options \in MetadataOptions : Test(options, NoBus)
  \/ Close(Num(0))

SpecOptions == Init /\ [][NextOptions]_vars

NextLoad ==
  \/ \E download \in Downloads : LoadModule(download)
  \/ \E b \in Buses : Publish(Str("hello"), Obj(<<>>), b)
  \/ \E b \in Buses : Test(Obj(<<>>), b)
  \/ \E record \in ChunkRecords : Data(record)
  \/ \E code \in ExitCodes : Close(code)

SpecLoad == InitLoad /\ [][NextLoad]_vars

NextCaller ==
  \/ \E message \in {Str("hello"), Num(42)} : ModulePublish(message, NoBus)
  \/ ModuleTest(NoBus)
  \/ \E message \in {Str("hello"), Num(42)} : PublishWith(message, NoBus)
  \/ TestWith(NoBus)
  \/ \E record \in ChunkRecords : Data(record)
  \/ \E code \in {Num(0), Num(1)} : Close(code)

SpecCaller == InitCaller /\ [][NextCaller]_vars

NextChunks ==
  \/ Publish(Str("hello"), Obj(<<>>), NoBus)
  \/ Test(Obj(<<>>), NoBus)
  \/ \E data \in Chunks : Process(data)
  \/ \E code \in ExitCodes : Close(code)

SpecChunks == Init /\ [][NextChunks]_vars

NextSession ==
  \/ \E message \in Messages, b \in Buses : Publish(message, Obj(<<>>), b)
  \/ \E b \in Buses : Test(Obj(<<>>), b)
  \/ \E record \in Records : Data(record)
  \/ \E code \in ExitCodes : Close(code)

SpecSession == Init /\ [][NextSession]_vars

(***************************************************************************)
(* What the claims speak of.                                               *)
(***************************************************************************)
Resolved(value) == [value |-> value, state |-> "resolved"]

Rejected(text) == [value |-> Err(text), state |-> "rejected"]

\* the record carries a non-empty error field
ErrorRecord(r) == Truthy(Get(r, "error"))

\* a record whose discriminator is done or test, and that carries no error
TerminalRecord(r) == ~ErrorRecord(r) /\ Get(r, "msg") \in {Str("done"), Str("test")}

DoneRecord(r) == ~ErrorRecord(r) /\ Get(r, "msg") = Str("done")

TestRecord(r) == ~ErrorRecord(r) /\ Get(r, "msg") = Str("test")

SawError == \E i \in 1..Len(handled) : ErrorRecord(handled[i])

SawTerminal == \E i \in 1..Len(handled) : TerminalRecord(handled[i])

FirstError == handled[CHOOSE i \in 1..Len(handled) :
                        ErrorRecord(handled[i]) /\ \A j \in 1..(i - 1) : ~ErrorRecord(handled[j])]

LastTerminal == handled[CHOOSE i \in 1..Len(handled) :
                          TerminalRecord(handled[i])
                          /\ \A j \in (i + 1)..Len(handled) : ~TerminalRecord(handled[j])]

\* the subprocess has exited and the close handler has run
Exited == phase = "closed"

\* the case of C1: a done record with a message_id was the last terminal record, exit 0
C1_Case ==
  /\ Exited /\ ~test /\ exitCode = Num(0)
  /\ ~SawError /\ SawTerminal
  /\ DoneRecord(LastTerminal) /\ Truthy(Get(LastTerminal, "message_id"))

(***************************************************************************)
(* C1.  In normal mode, a child that emits a done record carrying a        *)
(* non-empty message_id (the last terminal record it emits), emits no      *)
(* record with an error, and exits with code 0 makes publish resolve with  *)
(* exactly that message_id.                                                *)
(***************************************************************************)
C1_DoneThenExitZeroResolves ==
  C1_Case => outcome = Resolved(Get(LastTerminal, "message_id"))

C1_Witness == C1_Case /\ outcome = Resolved(Str("abc-123"))

(***************************************************************************)
(* C2.  In normal mode, once a record with a non-empty error field has     *)
(* been handled, the subprocess has been killed (whether or not it has     *)
(* exited) and publish is rejected with an Error whose message is the      *)
(* text of that record (the first such record of the call).                *)
(***************************************************************************)
C2_ErrorRecordKillsAndRejects ==
  (phase \in {"running", "closed"} /\ ~test /\ SawError)
    => (killed /\ outcome = Rejected(Text(Get(FirstError, "error"))))

\* the case of C3: a failed test result was the last terminal record, exit not 0
C3_Case ==
  /\ Exited /\ test /\ exitCode # Num(0)
  /\ SawTerminal /\ TestRecord(LastTerminal)
  /\ Get(LastTerminal, "success") = Bool(FALSE)

C4_Case ==
  /\ Exited /\ ~test /\ exitCode = Num(0)
  /\ ~SawError /\ ~SawTerminal

(***************************************************************************)
(* C4.  In normal mode, a child that exits with code 0 without any record  *)
(* having stored a value (no terminal record, no error record) makes       *)
(* publish reject with the 'unknown error' failure; it does not resolve.   *)
(***************************************************************************)
C4_NoResultIsUnknownError == C4_Case => outcome = Rejected(UnknownError(Undefined))

C4_Witness == C4_Case /\ Len(handled) > 0 /\ outcome.state = "rejected"

Storing(r) == ErrorRecord(r) \/ TerminalRecord(r)

SawStoring == \E i \in 1..Len(handled) : Storing(handled[i])

LastStoring == handled[CHOOSE i \in 1..Len(handled) :
                         Storing(handled[i])
                         /\ \A j \in (i + 1)..Len(handled) : ~Storing(handled[j])]

\* what that record stores in test mode
StoredInTestMode(r) ==
  IF ErrorRecord(r) THEN Bool(FALSE)
  ELSE IF DoneRecord(r) THEN Get(r, "message_id")
  ELSE Get(r, "success")

C6_StoredValueAlwaysResolves ==
  (/\ Exited /\ ~test /\ ~SawError /\ SawTerminal
   /\ DoneRecord(LastTerminal) /\ Truthy(Get(LastTerminal, "message_id")))
    => outcome = Resolved(Get(LastTerminal, "message_id"))

\* how the exit settles a call that is still pending, by mode, stored value and code
SettledAtExit(mode, stored, code) ==
  IF mode /\ ~Nullish(stored) THEN Resolved(stored)
  ELSE IF code # Num(0) THEN Rejected(ExitMessage(code))
  ELSE IF ~Truthy(stored) THEN Rejected(UnknownError(stored))
  ELSE Resolved(stored)

(***************************************************************************)
(* C6, amended.  At exit a test-mode call whose PendingResult holds a      *)
(* value resolves with it whatever the exit code is.  A normal-mode call   *)
(* resolves with PendingResult only when the exit code is 0 and the value  *)
(* is non-empty: with a non-zero code N it is rejected with 'process       *)
(* exited with code N' even though PendingResult holds a message_id.  (A   *)
(* normal-mode call that an error record already rejected keeps that       *)
(* rejection.)                                                             *)
(***************************************************************************)
C6_ExitSettlesByModeAndCode ==
  Exited =>
    \/ outcome = SettledAtExit(test, messageId, exitCode)
    \/ ~test /\ SawError /\ outcome = Rejected(Text(Get(FirstError, "error")))

C6_Witness ==
  /\ Exited /\ ~test /\ ~SawError /\ SawTerminal
  /\ messageId = Str("abc-123")
  /\ exitCode = Num(1)
  /\ outcome = Rejected(ExitMessage(Num(1)))

\* the case of C7: no record stored a value, exit not 0
C7_Case ==
  /\ Exited /\ ~test /\ exitCode # Num(0)
  /\ ~SawError /\ ~SawTerminal

(***************************************************************************)
(* C7.  In normal mode, a child that exits with a non-zero code N without  *)
(* having emitted an error record or a terminal record makes publish       *)
(* reject with an error whose message names N.                             *)
(***************************************************************************)
C7_AbnormalExitNamesCode ==
  C7_Case => outcome = Rejected("pulsar-publish process exited with code " \o exitCode.v)

C7_Witness == C7_Case /\ exitCode = Num(2) /\ outcome.state = "rejected"

(***************************************************************************)
(* C8.  setJWT called with an empty or whitespace-only token throws, and   *)
(* the step changes nothing else: it spawns no subprocess and leaves the   *)
(* authorization configuration as it was.                                  *)
(***************************************************************************)
BlankTokens == {token \in JWTTokens : token.t = "string" /\ token.v \in {"", " ", "  ", "   "}}

C8_BlankTokenThrowsAndKeepsSlot ==
  [][\A token \in BlankTokens, allowUnverified \in {Bool(FALSE), Bool(TRUE)} :
       setJWT(token, allowUnverified)
         => /\ thrown' = "a valid JWT token must be provided"
            /\ authentication' = authentication
            /\ phase' = phase /\ command' = command]_vars

\* a configured Publisher on which the setter has thrown: the configuration is still there
C8_Witness ==
  /\ thrown = "a valid JWT token must be provided"
  /\ lastSetter.by = "setBasicAuth"
  /\ Get(authentication, "username") = Str("alice")

(***************************************************************************)
(* The authentication flags, by setter: the field of the variant and the   *)
(* flag that stands for it.                                                *)
(***************************************************************************)
SetterNames == {"setJWT", "setmTLS", "setOauth2", "setBasicAuth", "setAthenz"}

VariantFlags(by) ==
  CASE by = "setJWT" -> {<<"token", "--jwt">>, <<"allowUnverified", "--allow-unverified">>}
    [] by = "setmTLS" -> {<<"certPath", "--mtls-cert">>, <<"keyPath", "--mtls-key">>,
                          <<"caCert", "--mtls-ca-cert">>}
    [] by = "setOauth2" -> {<<"issuer", "--oauth2-issuer">>,
                            <<"privateKey", "--oauth2-private-key">>,
                            <<"audience", "--oauth2-audience">>,
                            <<"clientId", "--oauth2-client-id">>}
    [] by = "setBasicAuth" -> {<<"username", "--username">>, <<"password", "--password">>}
    [] by = "setAthenz" -> {<<"url", "--athenz">>, <<"domain", "--athenz-domain">>,
                            <<"tenant", "--athenz-tenant">>, <<"service", "--athenz-service">>,
                            <<"privateKey", "--athenz-private-key">>,
                            <<"keyId", "--athenz-key-id">>, <<"caCert", "--athenz-ca-cert">>,
                            <<"proxy", "--athenz-proxy">>}
    [] OTHER -> {}

AllAuthFlags == UNION {{f[2] : f \in VariantFlags(by)} : by \in SetterNames}

\* the positions of the vector that hold an authentication flag
AuthPositions(cmd) == {i \in 1..Len(cmd) : cmd[i] \in AllAuthFlags}

ValueTexts(o) == {Text(o.entries[i].v) : i \in 1..Len(o.entries)}

\* every value any setter or any option of a call is given, as text
AllAuthValues ==
  UNION ( {{Text(token), Text(JWTMaterial(token))} : token \in JWTTokens}
          \cup {{Text(paths[i]) : i \in 1..3} : paths \in MTLSInputs}
          \cup {ValueTexts(config) : config \in OAuth2Inputs \cup AthenzInputs}
          \cup {{Text(login[1]), Text(login[2])} : login \in BasicInputs}
          \cup {ValueTexts(EffectiveAuth(options)) : options \in {o \in CallOptions : Override(o)}} )

\* the texts the last setter was given (for a token that names a file, what the file holds)
GivenTexts(from) ==
  ValueTexts(from.given)
    \cup (IF from.by = "setJWT" THEN {Text(JWTMaterial(Get(from.given, "token")))} ELSE {})

\* a vector was built from a slot that a setter wrote last
BuiltAfterSetter == phase \in {"running", "closed"} /\ commandFrom.by \in SetterNames

(***************************************************************************)
(* C9.  After any sequence of setter calls, the vector of the next call    *)
(* carries authentication flags of the variant of the last setter only,    *)
(* and no value given to an earlier setter.                                *)
(***************************************************************************)
C9_OnlyLastVariant ==
  BuiltAfterSetter =>
    /\ \A i \in AuthPositions(command) :
         command[i] \in {f[2] : f \in VariantFlags(commandFrom.by)}
    /\ \A i \in 1..Len(command) :
         command[i] \in AllAuthValues => command[i] \in GivenTexts(commandFrom)

C9_Witness ==
  /\ BuiltAfterSetter /\ commandFrom.by = "setAthenz"
  /\ Get(commandFrom.given, "caCert") = Undefined
  /\ \E i \in 1..Len(command) : command[i] = "--athenz-private-key"
  /\ \A i \in 1..Len(command) : command[i] # "--athenz-ca-cert"

\* how often a token stands in the vector
Occurrences(cmd, token) == Cardinality({i \in 1..Len(cmd) : cmd[i] = token})

(***************************************************************************)
(* C10.  For every variant configured through its setter, the vector       *)
(* holds exactly one flag per present field of the variant, followed by    *)
(* the field's value (bare for allowUnverified), and no flag for an absent *)
(* field.                                                                  *)
(***************************************************************************)
C10_OneFlagPerPresentField ==
  BuiltAfterSetter =>
    \A f \in VariantFlags(commandFrom.by) :
      IF Truthy(Get(commandFrom.given, f[1]))
        THEN /\ Occurrences(command, f[2]) = 1
             /\ f[1] \notin {"token", "allowUnverified"}
                  => \E i \in 1..(Len(command) - 1) :
                       command[i] = f[2] /\ command[i + 1] = Text(Get(commandFrom.given, f[1]))
        ELSE Occurrences(command, f[2]) = 0

\* the flag stands in the vector, and the token after it is the value
FollowedBy(cmd, flag, value) ==
  \E i \in 1..(Len(cmd) - 1) : cmd[i] = flag /\ cmd[i + 1] = value

\* the vector was built from the slot that the setter named wrote last
BuiltAfter(setter) == BuiltAfterSetter /\ commandFrom.by = setter

(***************************************************************************)
(* C11.  After setmTLS was given three non-empty paths, the vector of the  *)
(* next call holds --mtls-cert, --mtls-key and --mtls-ca-cert, each        *)
(* followed by its path.                                                   *)
(***************************************************************************)
C11_MTLSFlagsEmitted ==
  (/\ BuiltAfter("setmTLS")
   /\ \A field \in {"certPath", "keyPath", "caCert"} : Truthy(Get(commandFrom.given, field)))
    => /\ FollowedBy(command, "--mtls-cert", Text(Get(commandFrom.given, "certPath")))
       /\ FollowedBy(command, "--mtls-key", Text(Get(commandFrom.given, "keyPath")))
       /\ FollowedBy(command, "--mtls-ca-cert", Text(Get(commandFrom.given, "caCert")))

(***************************************************************************)
(* C12.  After setOauth2 was given a client identifier, the vector of the  *)
(* next call holds --oauth2-client-id followed by that identifier, next to *)
(* the issuer, private-key and audience flags of the fields given.         *)
(***************************************************************************)
C12_OAuth2ClientIdEmitted ==
  (BuiltAfter("setOauth2") /\ Truthy(Get(commandFrom.given, "clientId")))
    => /\ FollowedBy(command, "--oauth2-client-id", Text(Get(commandFrom.given, "clientId")))
       /\ \A f \in VariantFlags("setOauth2") :
            Truthy(Get(commandFrom.given, f[1]))
              => FollowedBy(command, f[2], Text(Get(commandFrom.given, f[1])))

(***************************************************************************)
(* The shape of the vector: flags, their values and the positionals.       *)
(***************************************************************************)
IsFlag(token) == StartsWith(token, "--")

\* the flags that take no value
BareFlags == {"--disable-replication", "--allow-unverified", "--test"}

\* the token is a flag, or the value of the flag before it
FlagOrValue(cmd, i) ==
  IsFlag(cmd[i]) \/ (i > 1 /\ IsFlag(cmd[i - 1]) /\ cmd[i - 1] \notin BareFlags)

\* a child was spawned for a normal-mode call, for a test-mode call
BuiltNormal == phase \in {"running", "closed"} /\ ~test

BuiltTest == phase \in {"running", "closed"} /\ test

(***************************************************************************)
(* C13.  In the vector of a normal-mode call, whatever options and         *)
(* authentication are set, the last token is the payload, the token before *)
(* it is the connection target, and every token before the target is a     *)
(* flag or the value of a flag: no flag stands at or after the target.     *)
(***************************************************************************)
C13_FlagsThenTargetThenPayload ==
  BuiltNormal =>
    LET n == Len(command) IN
      /\ n >= 2
      /\ command[n] = EscapeQuotes(Text(commandFrom.message))
      /\ command[n - 1] = ConnectionString
      /\ \A i \in 1..(n - 2) : FlagOrValue(command, i)
      /\ \A i \in 1..n : IsFlag(command[i]) => i < n - 1

C13_Witness ==
  /\ BuiltNormal /\ commandFrom.by = "setAthenz"
  /\ Has(commandFrom.options, "replicationClusters")
  /\ command[1] = "--athenz-proxy"
  /\ command[Len(command)] = "hello"

(***************************************************************************)
(* C14.  In the vector of a test-mode call --test is the first token, the  *)
(* connection target is the last token and the only positional (every      *)
(* token between them is a flag or the value of a flag), and the payload   *)
(* is no token of the vector.                                              *)
(***************************************************************************)
C14_TestVectorHasNoPayload ==
  BuiltTest =>
    LET n == Len(command) IN
      /\ n >= 2
      /\ command[1] = "--test"
      /\ command[n] = ConnectionString
      /\ \A i \in 1..(n - 1) : FlagOrValue(command, i) /\ command[i] # ConnectionString
      /\ \A i \in 1..n : command[i] # EscapeQuotes(Text(commandFrom.message))

C14_Witness ==
  /\ BuiltTest /\ commandFrom.by = "setBasicAuth"
  /\ Has(commandFrom.options, "key")
  /\ command = <<"--test", "--password", "secret", "--username", "alice", ConnectionString>>

(***************************************************************************)
(* The categories of flags, and where the flags of each stand.             *)
(***************************************************************************)
MessageFlagNames ==
  {"--key", "--ordering-key", "--event-time", "--replication-cluster",
   "--disable-replication", "--sequence-id", "--deliver-after", "--deliver-at", "--property"}

\* the value of a --producer-property that stands for a property of the Publisher
ConfigProperties ==
  {properties.entries[i].k \o "=" \o Text(properties.entries[i].v) :
     i \in 1..Len(properties.entries)}

\* the flags of the producer: --name, --timeout, --producer-property of the Publisher
ProducerPositions(cmd) ==
  {i \in 1..Len(cmd) :
     \/ cmd[i] \in {"--name", "--timeout"}
     \/ cmd[i] = "--producer-property" /\ i < Len(cmd) /\ cmd[i + 1] \in ConfigProperties}

\* the flags of the message options (a --producer-property of the option key
\* producer-properties among them)
MessagePositions(cmd) ==
  {i \in 1..Len(cmd) :
     \/ cmd[i] \in MessageFlagNames
     \/ cmd[i] = "--producer-property" /\ i \notin ProducerPositions(cmd)}

\* every position of the first set is left of every position of the second
AllLeftOf(P, Q) == \A i \in P, j \in Q : i < j

Serialize(message) ==
  CASE message.t \in {"object", "array", "null"} -> Str(JSONStringify(message))
    [] message.t = "string" -> message
    [] OTHER -> Str(Text(message))

(***************************************************************************)
(* C16.  As claimed: publish accepts a payload that is no string: building *)
(* the command does not fail, and the payload token, the last of the       *)
(* vector, is the JSON text of an object, the string coercion of a         *)
(* primitive, with every double quote escaped.                             *)
(***************************************************************************)
C16_AnyPayloadIsSerialized ==
  (/\ phase \in {"running", "closed", "failed"} /\ ~test
   /\ commandFrom.message.t \notin {"string", "undefined"})
    => /\ phase # "failed"
       /\ command[Len(command)] = EscapeQuotes(Text(Serialize(commandFrom.message)))

(***************************************************************************)
(* The options of the call, by the name the switch knows a key under.      *)
(***************************************************************************)
\* the name the switch compares: key.trim().toLowerCase()
KeyName(key) == ToLowerCase(Trim(key))

\* the entries of the options whose key has the name
EntriesNamed(options, keyName) ==
  SelectSeq(options.entries, LAMBDA e : KeyName(e.k) = keyName)

RECURSIVE ValuesOf(_, _)
\* the values that follow the occurrences of the flag, from left to right
ValuesOf(cmd, flag) ==
  IF Len(cmd) < 2 THEN <<>>
  ELSE IF Head(cmd) = flag THEN <<cmd[2]>> \o ValuesOf(SubSeq(cmd, 3, Len(cmd)), flag)
  ELSE ValuesOf(Tail(cmd), flag)

\* the call gave one replicationClusters list
GaveClusters ==
  /\ BuiltNormal
  /\ Len(EntriesNamed(commandFrom.options, "replicationclusters")) = 1
  /\ EntriesNamed(commandFrom.options, "replicationclusters")[1].v.t = "array"

Clusters == EntriesNamed(commandFrom.options, "replicationclusters")[1].v.items

\* the count alone: one --replication-cluster per entry of the list
OneFlagPerCluster ==
  GaveClusters => Occurrences(command, "--replication-cluster") = Len(Clusters)

(***************************************************************************)
(* C17.  As claimed: for a replicationClusters list of n entries the       *)
(* vector holds n --replication-cluster flags, and their values, read from *)
(* left to right, are the entries in the order of the list.                *)
(***************************************************************************)
C17_ClustersInInputOrder ==
  GaveClusters =>
    /\ Occurrences(command, "--replication-cluster") = Len(Clusters)
    /\ ValuesOf(command, "--replication-cluster")
         = [i \in 1..Len(Clusters) |-> Quoted(Clusters[i])]

(***************************************************************************)
(* The keys the switch knows, and the flags an entry of the options adds.  *)
(***************************************************************************)
\* the keys whose flag is followed by the quoted value
ScalarKeys ==
  {<<"key", "--key">>, <<"orderingkey", "--ordering-key">>, <<"eventtime", "--event-time">>,
   <<"sequenceid", "--sequence-id">>, <<"deliverafter", "--deliver-after">>,
   <<"deliverat", "--deliver-at">>}

\* the keys whose flag is repeated, once per property of the value
MappingKeys == {<<"properties", "--property">>, <<"producer-properties", "--producer-property">>}

\* how many flags one entry of the options adds
FlagsAdded(e) ==
  LET k == KeyName(e.k) IN
  CASE k \in {f[1] : f \in ScalarKeys} \cup {"disablereplication"} -> 1
    [] k = "replicationclusters" -> Len(ItemsOf(e.v))
    [] k \in {f[1] : f \in MappingKeys} -> Len(EntriesOf(e.v))
    [] OTHER -> 0

RECURSIVE FlagsExpected(_)
\* how many message flags the entries add together
FlagsExpected(entries) ==
  IF Len(entries) = 0 THEN 0 ELSE FlagsAdded(Head(entries)) + FlagsExpected(Tail(entries))

\* a key the switch has no case for, that is no option read elsewhere
Unrecognised(options) ==
  {i \in 1..Len(options.entries) :
     /\ FlagsAdded(options.entries[i]) = 0
     /\ options.entries[i].k \notin {"test", "authentication", "auth"}}

(***************************************************************************)
(* C18.  The keys of the message options are recognised in any letter      *)
(* case: an entry whose key, lower-cased, is one of key, orderingKey,       *)
(* eventTime, sequenceId, deliverAfter, deliverAt puts its flag and its     *)
(* quoted value into the vector, replicationClusters one flag per entry,   *)
(* disableReplication its flag, properties one --property per property.    *)
(* A key outside the recognised set adds no token and raises no error: the *)
(* vector is built and holds exactly the message flags of the recognised   *)
(* entries.                                                                *)
(***************************************************************************)
C18_KeysCaseInsensitiveUnknownIgnored ==
  (phase \in {"running", "closed", "failed"} /\ ~test /\ commandFrom.message.t = "string")
    => LET options == commandFrom.options IN
       /\ phase # "failed"
       /\ \A f \in ScalarKeys :
            \A i \in 1..Len(EntriesNamed(options, f[1])) :
              FollowedBy(command, f[2], Quoted(EntriesNamed(options, f[1])[i].v))
       /\ EntriesNamed(options, "disablereplication") # <<>>
            => Occurrences(command, "--disable-replication") = 1
       /\ \A i \in 1..Len(EntriesNamed(options, "properties")) :
            \A p \in 1..Len(EntriesOf(EntriesNamed(options, "properties")[i].v)) :
              LET property == EntriesOf(EntriesNamed(options, "properties")[i].v)[p]
              IN  FollowedBy(command, "--property", property.k \o "=" \o Quoted(property.v))
       /\ Cardinality(MessagePositions(command)) = FlagsExpected(options.entries)
       /\ \A i \in 1..(Len(command) - 2) : FlagOrValue(command, i)

C18_Witness ==
  /\ BuiltNormal
  /\ Has(commandFrom.options, "SEQUENCEID") /\ Has(commandFrom.options, " deliverAfter ")
  /\ Unrecognised(commandFrom.options) # {}
  /\ FollowedBy(command, "--sequence-id", "\"7\"")
  /\ FollowedBy(command, "--deliver-after", "\"500\"")

(***************************************************************************)
(* The outcome of a call made without a bus, from the mode, the records    *)
(* handled and the exit code alone.                                        *)
(***************************************************************************)
\* the value setResponse was called with last
StoredWithoutBus ==
  IF test
    THEN IF SawStoring THEN StoredInTestMode(LastStoring) ELSE Undefined
    ELSE IF SawTerminal THEN Response(Get(LastTerminal, "msg"), LastTerminal) ELSE Undefined

OutcomeWithoutBus ==
  IF ~test /\ SawError THEN Rejected(Text(Get(FirstError, "error")))
  ELSE IF Exited THEN SettledAtExit(test, StoredWithoutBus, exitCode)
  ELSE Pending

\* a call made without a bus settles as OutcomeWithoutBus says
WithoutBusIsReference ==
  (phase \in {"running", "closed"} /\ ~bus.present) => outcome = OutcomeWithoutBus

(***************************************************************************)
(* C19.  As claimed: the bus never affects the outcome.  For the records   *)
(* handled and the exit code of a call, the promise of a call made with a  *)
(* bus, whatever listeners it has, is in the state, and holds the value or *)
(* the reason, of the same call made without a bus.                        *)
(***************************************************************************)
C19_BusNeverAffectsOutcome ==
  phase \in {"running", "closed"} => outcome = OutcomeWithoutBus

\* the claim, for a bus that has a listener for 'error'
BusWithErrorListenerIsPassive ==
  (phase \in {"running", "closed"} /\ "error" \in bus.listeners) => outcome = OutcomeWithoutBus

(***************************************************************************)
(* C20.  As claimed: a call only reads the authentication slot of the      *)
(* Publisher.  A call whose options give no authentication override builds *)
(* its vector from the slot as the constructor or a setter left it: no     *)
(* earlier call has written the slot.                                      *)
(***************************************************************************)
C20_CallNeverMutatesSlot ==
  (phase \in {"running", "closed"} /\ ~Override(commandFrom.options))
    => commandFrom.by # "options"

(***************************************************************************)
(* Records handled after the forced termination.                           *)
(***************************************************************************)
\* the place in handled of the first record with an error: it called child.kill()
KilledAt == CHOOSE i \in 1..Len(handled) :
              ErrorRecord(handled[i]) /\ \A j \in 1..(i - 1) : ~ErrorRecord(handled[j])

\* the data handler ran for a record that arrived after the kill
HandledAfterKill == SawError /\ KilledAt < Len(handled)

(***************************************************************************)
(* C21.  As claimed: once an error record has triggered the forced         *)
(* termination of the subprocess, the listeners are detached: the record   *)
(* that called child.kill() is the last one the data handler decodes,      *)
(* forwards to the bus or stores a value for.                              *)
(***************************************************************************)
C21_NoRecordAfterKill ==
  (phase \in {"running", "closed"} /\ killed) => ~HandledAfterKill

(***************************************************************************)
(* The lines of a chunk.                                                   *)
(***************************************************************************)
\* where the first newline of the text stands, 0 if it has none
NewlineAt(text) ==
  IF \E i \in 1..Len(text) : SubSeq(text, i, i) = "\n"
    THEN CHOOSE i \in 1..Len(text) :
           SubSeq(text, i, i) = "\n" /\ \A j \in 1..(i - 1) : SubSeq(text, j, j) # "\n"
    ELSE 0

RECURSIVE LinesOf(_)
\* the complete lines of the text, in order
LinesOf(text) ==
  IF NewlineAt(text) = 0 THEN <<>>
  ELSE <<SubSeq(text, 1, NewlineAt(text) - 1)>>
         \o LinesOf(SubSeq(text, NewlineAt(text) + 1, Len(text)))

\* the chunk is made of complete lines, each the line of a record
WholeLines(data) ==
  /\ Len(data) > 0 /\ SubSeq(data, Len(data), Len(data)) = "\n"
  /\ \A i \in 1..Len(LinesOf(data)) : ~ParseThrows(LinesOf(data)[i])

RecordsIn(data) == [i \in 1..Len(LinesOf(data)) |-> Parse(LinesOf(data)[i])]

(***************************************************************************)
(* C22.  As claimed: decoding does not depend on the chunk boundaries.     *)
(* Whatever chunk the data handler is called with, it does not fail; and   *)
(* when the chunk holds complete lines, however many, each record of it is *)
(* handled once, in order.                                                 *)
(***************************************************************************)
C22_ChunkingIsTransparent ==
  [][\A data \in Chunks :
       Process(data)
         => /\ crashed' = crashed
            /\ WholeLines(data) => handled' = handled \o RecordsIn(data)]_vars

\* the claim, for the chunks that hold exactly one line
OneLineChunksAreDecoded ==
  [][\A data \in Chunks :
       (Process(data) /\ WholeLines(data) /\ Len(LinesOf(data)) = 1)
         => crashed' = crashed /\ handled' = handled \o RecordsIn(data)]_vars

(***************************************************************************)
(* Loading the module and the calls.                                       *)
(***************************************************************************)
\* the text has the part in it
Names(text, part) ==
  \E i \in 1..(Len(text) - Len(part) + 1) : SubSeq(text, i, i + Len(part) - 1) = part

(***************************************************************************)
(* C23.  No subprocess is spawned unless the executable was at BIN_PATH    *)
(* when the loading of the module finished: a call has left the idle phase *)
(* only in a module that is loaded with the executable present; and when   *)
(* the executable is absent and the download does not produce it, loading  *)
(* fails with an error that names BIN_PATH and no call has proceeded.      *)
(***************************************************************************)
C23_NoSpawnWithoutExecutable ==
  /\ (phase # "idle" \/ command # <<>>) => (loading.state = "loaded" /\ loading.binary)
  /\ loading.state = "loaded" => loading.binary
  /\ loading.state = "failed"
       => /\ ~loading.binary
          /\ Names(loading.error, BIN_PATH)
          /\ phase = "idle" /\ command = <<>>

\* loading failed because the executable was absent and the download did not produce it
C23_Witness ==
  loading.state = "failed" /\ ~loading.binary /\ Names(loading.error, BIN_PATH)

\* a subprocess runs in a module that was loaded
C23_Spawned == phase = "running" /\ loading.state = "loaded" /\ loading.binary

(***************************************************************************)
(* C24.  A call resolves only in the close handler.  While the subprocess  *)
(* runs the call is not resolved, whatever done or test-result records     *)
(* have been handled: such a record stores its value and does not kill     *)
(* the subprocess, which is killed only for a record with an error.        *)
(***************************************************************************)
C24_ResolvesOnlyAtExit ==
  /\ phase = "running" => (outcome.state # "resolved" /\ exitCode = Undefined)
  /\ (phase = "running" /\ killed) => SawError
  /\ outcome.state = "resolved" => (phase = "closed" /\ exitCode # Undefined)

\* a done record has been handled and its value stored; the call still waits for the exit
C24_Witness ==
  /\ phase = "running" /\ ~killed /\ outcome = Pending
  /\ SawTerminal /\ DoneRecord(LastTerminal)
  /\ messageId = Get(LastTerminal, "message_id") /\ Truthy(messageId)

(***************************************************************************)
(* C25.  As claimed: the stored value is written only by the success       *)
(* terminal of the active mode.  In normal mode nothing but the message_id *)
(* of a done record is stored, in test mode nothing but a boolean, so      *)
(* publish never resolves with a boolean and test never resolves with a    *)
(* message identifier.                                                     *)
(***************************************************************************)
C25_OnlyTerminalOfActiveMode ==
  phase \in {"running", "closed"}
    => /\ ~test => /\ messageId.t # "boolean"
                   /\ outcome.state = "resolved" => outcome.value.t = "string"
       /\ test => /\ messageId.t \in {"undefined", "boolean"}
                  /\ outcome.state = "resolved" => outcome.value.t = "boolean"

(***************************************************************************)
(* C26.  As claimed: within one call the stored value is written at most   *)
(* once.  After a terminal record, or in test mode an error record, has    *)
(* stored a value, no later record replaces it: while the subprocess runs  *)
(* and at its exit, the stored value is the one stored first.              *)
(***************************************************************************)
C26_FirstStoredValueStands ==
  LET Writes(r) == IF test THEN Storing(r) ELSE TerminalRecord(r)
      Written(r) == IF test THEN StoredInTestMode(r) ELSE Response(Get(r, "msg"), r)
  IN  phase \in {"running", "closed"}
        => \A i \in 1..Len(handled) :
             (Writes(handled[i]) /\ \A j \in 1..(i - 1) : ~Writes(handled[j]))
               => messageId = Written(handled[i])

C27_WitnessTest ==
  /\ BuiltTest /\ timeout = Num(5)
  /\ Occurrences(command, "--timeout") = 0

(***************************************************************************)
(* C28.  As claimed: in normal mode with a bus, a call that has resolved   *)
(* emitted exactly one end event, which carries the message identifier the *)
(* call resolved with, and a call that was rejected emitted no end event,  *)
(* whatever records and exit code followed the rejection.                  *)
(***************************************************************************)
C28_EndEventIffResolved ==
  LET ends == {i \in 1..Len(events) : events[i].name = "end"} IN
  (~test /\ bus.present /\ phase \in {"running", "closed"})
    => /\ outcome.state = "resolved"
            => /\ Cardinality(ends) = 1
               /\ \A i \in ends : events[i] = EndEvent(outcome.value)
       /\ outcome.state # "resolved" => ends = {}

(***************************************************************************)
(* What the bus was handed for the records.                                *)
(***************************************************************************)
\* the places in events of what was emitted under the discriminator of a record
RecordEvents == {i \in 1..Len(events) : events[i].name \notin {"error", "end"}}

\* the fields of a record that are neither msg, time nor level
Remainder(r) == Delete(Delete(Delete(r, "msg"), "time"), "level")

CommandOfThisIsCommand ==
  (phase = "running" /\ lastSetter = [by |-> commandFrom.by, given |-> commandFrom.given])
    => command = CommandOf(This, commandFrom.message, commandFrom.options)

\* the calls of the history that a function the module exports made
ExportedCalls == {i \in 1..Len(made) : made[i].api \in {"publish", "test"}}

(***************************************************************************)
(* C31.  As claimed: calling the publish, or the test, that the module     *)
(* exports twice with the same options object builds the same vector both  *)
(* times, and the first call leaves the authorization and auth fields of   *)
(* the caller's object as they were.                                       *)
(***************************************************************************)
C31_SameOptionsSameVector ==
  /\ \A i \in ExportedCalls, j \in ExportedCalls :
       (made[i].api = made[j].api /\ made[i].message = made[j].message)
         => made[i].command = made[j].command
  /\ \A i \in ExportedCalls :
       (i = Len(made) /\ phase \in {"running", "closed"})
         => /\ Get(opts, "authorization") = Get(made[i].given, "authorization")
            /\ Get(opts, "auth") = Get(made[i].given, "auth")

\* the claim, for an options object that names no authentication
SameVectorWithoutAuthentication ==
  \A i \in ExportedCalls, j \in ExportedCalls :
    (/\ made[i].api = made[j].api /\ made[i].message = made[j].message
     /\ Nullish(Get(made[1].given, "authorization")) /\ Nullish(Get(made[1].given, "auth")))
      => made[i].command = made[j].command

\* the calls of the history that were a publish
PublishCalls == {i \in 1..Len(made) : made[i].api \in {"publish", "Publisher.publish"}}

(***************************************************************************)
(* C32.  As claimed: test() leaves the caller's options object unchanged,  *)
(* so a publish made with the same object, after a test or not, runs in    *)
(* normal mode: its vector ends with the payload and has no --test flag,   *)
(* and it resolves with a message identifier, not a boolean.               *)
(***************************************************************************)
C32_TestLeavesOptionsAlone ==
  /\ \A i \in 1..Len(made) :
       (made[i].api = "Publisher.test" /\ i = Len(made)) => opts = made[i].given
  /\ \A i \in PublishCalls :
       made[i].command # <<>>
         => /\ ~made[i].test
            /\ Occurrences(made[i].command, "--test") = 0
            /\ made[i].command[Len(made[i].command)] = EscapeQuotes(made[i].message.v)
  /\ (made # <<>> /\ Len(made) \in PublishCalls /\ outcome.state = "resolved")
       => outcome.value.t = "string"

====
